---- MODULE Spec2Model ----
(***************************************************************************)
(* Monitoring state engine of the terminal dashboard (src/src/main.rs):    *)
(* the tick loop of main, the host metric windows, the rate computation,   *)
(* the inventory refresh, the per-container history and the selection      *)
(* state driven by the key handlers.                                       *)
(*                                                                         *)
(* Representation.                                                         *)
(*   Option<T>      None is <<>>, Some(x) is <<x>>.                        *)
(*   f64            fixed point: percentages and kB figures are integers   *)
(*                  in tenths; a rate is an exact fraction <<num, den>>.   *)
(*   Instant        microseconds on the clock `now`.                       *)
(*   u64            a natural number; the workloads keep every value far   *)
(*                  below the width, so no cast saturates and no sum wraps.*)
(*   text           an opaque field is a string; a field the code parses   *)
(*                  is a sequence of one-character strings.                *)
(*   process output [spawned, success, lines]; a line is the sequence of   *)
(*                  its separator-delimited parts.                         *)
(***************************************************************************)
EXTENDS Integers, Sequences, FiniteSets, TLC

\* ------------------------------------------------------------------ bounds
\* Loop iterations explored by Spec.
MaxTicks == 3
\* Loop iterations of the scripted long run (SpecLong).
MaxLongTicks == 72
\* Loop iterations of the runs that track the listings (SpecFetch).
MaxFetchTicks == 3
\* Loop iterations of the runs inside the create dialog (SpecDialog).
MaxDialogTicks == 9
\* Loop iterations of the runs that create containers (SpecCreate).
MaxCreateTicks == 5

\* ------------------------------------------------------- program constants
\* vec![0; 60]: capacity of the four host windows.
WindowLen == 60
\* history.len() > 60: cap of one container's history.
HistoryCap == 60
\* (selected_field + 1) % 6: number of dialog fields.
FieldCount == 6

\* ----------------------------------------------------------------- helpers
None == <<>>
Some(x) == <<x>>
IsSome(o) == Len(o) = 1
Unwrap(o) == o[1]

Min(a, b) == IF a <= b THEN a ELSE b
Max(a, b) == IF a >= b THEN a ELSE b

\* Vec::remove(0): drop the oldest element.
RemoveFirst(v) == SubSeq(v, 2, Len(v))

\* vec![x; n]
Filled(x, n) == [k \in 1..n |-> x]

\* The last n elements of s (all of s when it is shorter).
LastN(s, n) == SubSeq(s, Max(1, Len(s) - n + 1), Len(s))

VARIABLES
    pc,                          \* "tick" | "poll" | "done" (quit) | "panicked"
    now,                         \* the monotonic clock, microseconds
    \* AppState
    current_tab,
    docker_list_state,
    docker_containers,
    docker_images,
    k8s_pods,
    k8s_list_state,
    docker_view,
    message,
    show_create_dialog,
    create_dialog_state,
    container_stats_history,
    \* locals of main that live across iterations
    cpu_data,
    ram_data,
    network_receive_speed_data,
    network_send_speed_data,
    prev_total_received,
    prev_total_transmitted,
    last_update,
    \* locals of the last iteration read by the renderer
    receive_rate_kbs,
    send_rate_kbs,
    \* effects on the outside and bookkeeping of the run
    dispatched,                  \* the external actions requested so far, oldest first
    called,                      \* how the action call of the last step ended, "none" without a call
    ticks,                       \* loop iterations completed
    pushed,                      \* every tuple pushed into the host windows, oldest first
    recorded,                    \* every sample passed to update_container_stats, per id
    sampled,                     \* the counter totals and instant read by every iteration, oldest first
    fetched,                     \* the listings handed to the last iteration of a run that tracks them
    script,                      \* the workload of a scripted run, 0 when unscripted
    last                         \* the step taken last, the selections and the dialog focus
                                 \* before it, and the run of dialog Tab keys it ends

appVars == <<current_tab, docker_list_state, docker_containers, docker_images,
             k8s_pods, k8s_list_state, docker_view, message, show_create_dialog,
             create_dialog_state, container_stats_history>>
hostVars == <<cpu_data, ram_data, network_receive_speed_data,
              network_send_speed_data, prev_total_received,
              prev_total_transmitted, last_update, receive_rate_kbs,
              send_rate_kbs>>
ghostVars == <<ticks, pushed, recorded, sampled, fetched, script>>
vars == <<pc, now, appVars, hostVars, dispatched, called, ghostVars, last>>

\* The step `op`, taken with the selections and the focus as they are now.
\* tabs counts the dialog Tab keys pressed in a row (ticks in between do not
\* break the row) and from is the focus the row started at.
Step(op) ==
    [op |-> op, docker |-> docker_list_state, k8s |-> k8s_list_state,
     focus |-> create_dialog_state.selected_field,
     tabs |-> IF op = "DialogTab" THEN last.tabs + 1
              ELSE IF op = "Tick" THEN last.tabs ELSE 0,
     from |-> IF op = "DialogTab" /\ last.tabs = 0
              THEN create_dialog_state.selected_field
              ELSE IF op \in {"DialogTab", "Tick"} THEN last.from ELSE 0]

\* How a call of an action helper can end.  The fire-and-forget helpers spawn
\* the process and drop the result; create_custom_container waits for the exit.
NoCall == "none"
SpawnOutcomes == {"spawned", "spawn_failed"}

\* ------------------------------------------------------------ dialog state
\* a dialog state that keeps a typed image name.
CreateDialogStateStale ==
    [selected_field |-> 0,
     image_name |-> <<"a">>, container_name |-> <<>>, ports |-> <<>>,
     env_vars |-> <<>>, volumes |-> <<>>, command |-> <<>>]

\* CreateDialogState::new
CreateDialogStateNew ==
    [selected_field |-> 0,
     image_name |-> <<>>, container_name |-> <<>>, ports |-> <<>>,
     env_vars |-> <<>>, volumes |-> <<>>, command |-> <<>>]

\* --------------------------------------------------------------- selection
\* The list the Docker table shows: docker_containers or docker_images.
DockerItemsLen ==
    IF docker_view = "Containers" THEN Len(docker_containers)
    ELSE Len(docker_images)

\* next without the wrap at the last index.
NextIndexNoWrap(sel, items_len) ==
    IF items_len = 0 THEN sel
    ELSE IF IsSome(sel) THEN Some(Unwrap(sel) + 1)
    ELSE Some(0)

\* next_docker_item / next_k8s_item: the index selected after the call.
NextIndex(sel, items_len) ==
    IF items_len = 0 THEN sel
    ELSE IF IsSome(sel)
         THEN (IF Unwrap(sel) >= items_len - 1 THEN Some(0)
               ELSE Some(Unwrap(sel) + 1))
    ELSE Some(0)

\* previous_docker_item / previous_k8s_item: the index selected after the call.
PreviousIndex(sel, items_len) ==
    IF items_len = 0 THEN sel
    ELSE IF IsSome(sel)
         THEN (IF Unwrap(sel) = 0 THEN Some(items_len - 1)
               ELSE Some(Unwrap(sel) - 1))
    ELSE Some(0)

\* ------------------------------------------------------------ text parsing
DigitOf ==
    [c \in {"0", "1", "2", "3", "4", "5", "6", "7", "8", "9"} |->
        CASE c = "0" -> 0 [] c = "1" -> 1 [] c = "2" -> 2 [] c = "3" -> 3
          [] c = "4" -> 4 [] c = "5" -> 5 [] c = "6" -> 6 [] c = "7" -> 7
          [] c = "8" -> 8 [] c = "9" -> 9]

AllDigits(s) == \A i \in 1..Len(s) : s[i] \in DOMAIN DigitOf

RECURSIVE NatOf(_)
NatOf(s) ==
    IF s = <<>> THEN 0
    ELSE 10 * NatOf(SubSeq(s, 1, Len(s) - 1)) + DigitOf[s[Len(s)]]

\* str::parse::<f64> on unsigned decimal text: Some(value in tenths), or None
\* where the parse is an Err.  Fraction digits after the first are dropped by
\* the fixed-point representation.
ParseF64(s) ==
    LET dots == {i \in 1..Len(s) : s[i] = "."} IN
    IF dots = {}
    THEN (IF s # <<>> /\ AllDigits(s) THEN Some(10 * NatOf(s)) ELSE None)
    ELSE IF Cardinality(dots) = 1
    THEN LET d == CHOOSE i \in dots : TRUE
             ip == SubSeq(s, 1, d - 1)
             fp == SubSeq(s, d + 1, Len(s))
         IN IF AllDigits(ip) /\ AllDigits(fp) /\ (ip # <<>> \/ fp # <<>>)
            THEN Some(10 * NatOf(ip) + (IF fp = <<>> THEN 0 ELSE DigitOf[fp[1]]))
            ELSE None
    ELSE None

\* Option::unwrap_or
UnwrapOr(o, d) == IF IsSome(o) THEN Unwrap(o) ELSE d

\* str::trim_end_matches(c)
RECURSIVE TrimEndMatches(_, _)
TrimEndMatches(s, c) ==
    IF s # <<>> /\ s[Len(s)] = c
    THEN TrimEndMatches(SubSeq(s, 1, Len(s) - 1), c)
    ELSE s

RECURSIVE TrimStart(_)
TrimStart(s) ==
    IF s # <<>> /\ s[1] = " " THEN TrimStart(SubSeq(s, 2, Len(s))) ELSE s

\* str::trim
Trim(s) == TrimStart(TrimEndMatches(s, " "))

\* str::split(c): the parts between the occurrences of c, at least one part.
RECURSIVE Split(_, _)
Split(s, c) ==
    LET at == {i \in 1..Len(s) : s[i] = c} IN
    IF at = {} THEN <<s>>
    ELSE LET i == CHOOSE k \in at : \A j \in at : k <= j
         IN <<SubSeq(s, 1, i - 1)>> \o Split(SubSeq(s, i + 1, Len(s)), c)

\* str::strip_suffix
StripSuffix(s, suf) ==
    IF Len(s) >= Len(suf) /\ SubSeq(s, Len(s) - Len(suf) + 1, Len(s)) = suf
    THEN Some(SubSeq(s, 1, Len(s) - Len(suf)))
    ELSE None

\* the closure parse_value of parse_net_io: kB figure in tenths
ParseValue(text) ==
    LET s == Trim(text) IN
    IF IsSome(StripSuffix(s, <<"k", "B">>))
    THEN UnwrapOr(ParseF64(Unwrap(StripSuffix(s, <<"k", "B">>))), 0)
    ELSE IF IsSome(StripSuffix(s, <<"M", "B">>))
    THEN UnwrapOr(ParseF64(Unwrap(StripSuffix(s, <<"M", "B">>))), 0) * 1024
    ELSE IF IsSome(StripSuffix(s, <<"G", "B">>))
    THEN UnwrapOr(ParseF64(Unwrap(StripSuffix(s, <<"G", "B">>))), 0) * 1024 * 1024
    ELSE 0

\* parse_net_io: <<rx, tx>>
ParseNetIo(net_io) ==
    LET parts == [k \in DOMAIN Split(net_io, "/") |-> Trim(Split(net_io, "/")[k])] IN
    IF Len(parts) # 2 THEN <<0, 0>>
    ELSE <<ParseValue(parts[1]), ParseValue(parts[2])>>

\* "N/A".to_string(), as an opaque field and as a field that is parsed.
NotAvailable == "N/A"
NotAvailableText == <<"N", "/", "A">>

\* -------------------------------------------------------- inventory source
\* a check that takes every spawned process for a success.
SucceededIfSpawned(output) == output.spawned

\* Ok(output) if output.status.success()
Succeeded(output) == output.spawned /\ output.success

\* The stats_map entry of an id: the last well-formed usage line carrying it.
StatsOf(stats_output, id) ==
    LET ls == IF Succeeded(stats_output) THEN stats_output.lines ELSE <<>>
        hits == {k \in 1..Len(ls) : Len(ls[k]) >= 6 /\ ls[k][1] = id}
    IN IF hits = {} THEN None
       ELSE LET p == ls[CHOOSE k \in hits : \A j \in hits : j <= k] IN
            Some([cpu_percent |-> UnwrapOr(ParseF64(TrimEndMatches(p[2], "%")), 0),
                  mem_usage   |-> p[3],
                  mem_percent |-> UnwrapOr(ParseF64(TrimEndMatches(p[4], "%")), 0),
                  net_io      |-> p[5],
                  block_io    |-> p[6]])

Placeholder ==
    [cpu_percent |-> 0, mem_usage |-> NotAvailable, mem_percent |-> 0,
     net_io |-> NotAvailableText, block_io |-> NotAvailable]

\* a parse that gives up at the first malformed line.
RECURSIVE UpToMalformed(_, _)
UpToMalformed(lines, n) ==
    IF lines = <<>> \/ Len(lines[1]) < n THEN <<>>
    ELSE <<lines[1]>> \o UpToMalformed(SubSeq(lines, 2, Len(lines)), n)

\* filter_map: keep the lines with at least n parts, in order.
WellFormed(lines, n) == SelectSeq(lines, LAMBDA l : Len(l) >= n)

\* a join that drops the containers without a usage record.
GetDockerContainersJoined(ps_output, stats_output) ==
    IF ~Succeeded(ps_output) THEN <<>>
    ELSE LET basic == SelectSeq(WellFormed(ps_output.lines, 5),
                                LAMBDA l : IsSome(StatsOf(stats_output, l[1])))
         IN [k \in 1..Len(basic) |->
               LET st == Unwrap(StatsOf(stats_output, basic[k][1])) IN
               [id |-> basic[k][1], image |-> basic[k][2], name |-> basic[k][3],
                status |-> basic[k][4], ports |-> basic[k][5],
                cpu_percent |-> st.cpu_percent, mem_usage |-> st.mem_usage,
                mem_percent |-> st.mem_percent, net_io |-> st.net_io,
                block_io |-> st.block_io]]

\* get_docker_containers_with_stats
GetDockerContainersWithStats(ps_output, stats_output) ==
    IF ~Succeeded(ps_output) THEN <<>>
    ELSE LET basic == WellFormed(ps_output.lines, 5) IN
         [k \in 1..Len(basic) |->
            LET st == UnwrapOr(StatsOf(stats_output, basic[k][1]), Placeholder) IN
            [id |-> basic[k][1], image |-> basic[k][2], name |-> basic[k][3],
             status |-> basic[k][4], ports |-> basic[k][5],
             cpu_percent |-> st.cpu_percent, mem_usage |-> st.mem_usage,
             mem_percent |-> st.mem_percent, net_io |-> st.net_io,
             block_io |-> st.block_io]]

\* get_docker_images
GetDockerImages(output) ==
    IF ~Succeeded(output) THEN <<>>
    ELSE LET ok == WellFormed(output.lines, 4) IN
         [k \in 1..Len(ok) |->
            [repository |-> ok[k][1], tag |-> ok[k][2],
             image_id |-> ok[k][3], size |-> ok[k][4]]]

\* get_k8s_pods
GetK8sPods(output) ==
    IF ~Succeeded(output) THEN <<>>
    ELSE LET ok == WellFormed(output.lines, 5) IN
         [k \in 1..Len(ok) |->
            [name |-> ok[k][1], namespace |-> ok[k][2], status |-> ok[k][3],
             restarts |-> ok[k][4], age |-> ok[k][5]]]

\* -------------------------------------------------------------- host side
\* f32::round() as u64 of a non-negative value given in tenths
\* (round half away from zero).
RoundTenths(x) == (x + 5) \div 10

\* (used_memory as f64 / memory as f64) * 100.0, then `as u64` (truncation)
MemoryUsagePercentage(used_memory, memory) == (used_memory * 100) \div memory

RECURSIVE SumReceived(_)
SumReceived(networks) ==
    IF networks = <<>> THEN 0
    ELSE networks[1].received + SumReceived(RemoveFirst(networks))

RECURSIVE SumTransmitted(_)
SumTransmitted(networks) ==
    IF networks = <<>> THEN 0
    ELSE networks[1].transmitted + SumTransmitted(RemoveFirst(networks))

\* a difference that takes the distance of the two counters.
AbsDiff(a, b) == IF a >= b THEN a - b ELSE b - a

\* u64::saturating_sub
SaturatingSub(a, b) == IF a >= b THEN a - b ELSE 0

\* the time elapsed since the loop started instead of since `since`.
ElapsedSinceStart(t, since) == IF t >= 1 THEN t ELSE 1

\* last_update.elapsed().as_secs_f64().max(1e-6), in microseconds
ElapsedMicros(t, since) == Max(t - since, 1)

\* The 0.0 a rate starts from.
ZeroRate == <<0, 1>>

\* diff as f64 / 1024.0 / elapsed_secs as the exact fraction
\* diff * 10^6 / (1024 * elapsed_us), reduced by 64.
RateKbs(diff, elapsed_us) == <<diff * 15625, 16 * elapsed_us>>

\* a rate that reads a missing previous sample as a counter of 0.
RateOfFromZero(total, prev, prev_other, elapsed_us) ==
    RateKbs(SaturatingSub(total, UnwrapOr(prev, 0)), elapsed_us)

\* The rate of one counter stream: 0.0 unless both previous samples exist.
RateOf(total, prev, prev_other, elapsed_us) ==
    IF IsSome(prev) /\ IsSome(prev_other)
    THEN RateKbs(SaturatingSub(total, Unwrap(prev)), elapsed_us)
    ELSE ZeroRate

\* a conversion that drops the fraction instead of rounding.
TruncRate(r) == r[1] \div r[2]

\* f64::round() as u64 of a non-negative fraction
RoundRate(r) == (2 * r[1] + r[2]) \div (2 * r[2])

\* a push that is skipped.
SlideSkipped(v, x) == v

\* a push that evicts the newest element instead of the oldest.
SlideEvictsNewest(v, x) == Append(SubSeq(v, 1, Len(v) - 1), x)

\* v.remove(0); v.push(x)
Slide(v, x) == Append(RemoveFirst(v), x)

\* ------------------------------------------------------------- history
\* The ContainerStats built from a container of the refreshed list.
StatsSample(c) ==
    [cpu_percent |-> c.cpu_percent, mem_percent |-> c.mem_percent,
     net_rx_kb |-> ParseNetIo(c.net_io)[1], net_tx_kb |-> ParseNetIo(c.net_io)[2]]

\* a cap that drops the sample just pushed instead of the oldest.
CappedDropsNewest(history) ==
    IF Len(history) > HistoryCap THEN SubSeq(history, 1, Len(history) - 1)
    ELSE history

\* history.push(stats); if history.len() > 60 { history.remove(0) }
Capped(history) ==
    IF Len(history) > HistoryCap THEN RemoveFirst(history) ELSE history

\* a record that pushes only into an entry that exists already.
UpdateExistingOnly(hist, container_id, stats) ==
    [x \in DOMAIN hist |->
        IF x = container_id THEN Capped(Append(hist[x], stats)) ELSE hist[x]]

\* AppState::update_container_stats
UpdateContainerStats(hist, container_id, stats) ==
    LET history == IF container_id \in DOMAIN hist THEN hist[container_id] ELSE <<>> IN
    [x \in DOMAIN hist \cup {container_id} |->
        IF x = container_id THEN Capped(Append(history, stats)) ELSE hist[x]]

\* for (id, stats) in updates { app_state.update_container_stats(&id, stats) }
RECURSIVE RecordEach(_, _)
RecordEach(hist, containers) ==
    IF containers = <<>> THEN hist
    ELSE RecordEach(UpdateContainerStats(hist, containers[1].id,
                                         StatsSample(containers[1])),
                    RemoveFirst(containers))

\* a refresh that first forgets every identity missing from the new list.
RecordAllPurging(hist, containers) ==
    LET listed == {containers[k].id : k \in 1..Len(containers)} IN
    RecordEach([x \in DOMAIN hist \cap listed |-> hist[x]], containers)

\* a refresh that records the sample of the first container only.
RecordFirstOnly(hist, containers) ==
    IF containers = <<>> THEN hist ELSE RecordEach(hist, <<containers[1]>>)

\* The history after the samples of a refreshed container list are recorded.
RecordAll(hist, containers) == RecordEach(hist, containers)

\* The same calls appended to an uncapped log per identity.
RECURSIVE LogAll(_, _)
LogAll(log, containers) ==
    IF containers = <<>> THEN log
    ELSE LET id == containers[1].id
             old == IF id \in DOMAIN log THEN log[id] ELSE <<>>
         IN LogAll([x \in DOMAIN log \cup {id} |->
                       IF x = id THEN Append(old, StatsSample(containers[1]))
                       ELSE log[x]],
                   RemoveFirst(containers))

\* ------------------------------------------------------------- rendering
\* c.id[..12] and img.image_id[..12] panic on a shorter string.
SliceLen == 12

\* Whether drawing the frame panics: the dialog is drawn alone; the Docker tab
\* slices the identity of every row of the view it shows.
RenderPanics(tab, dialog, view, containers, images) ==
    /\ ~dialog
    /\ tab = "Docker"
    /\ IF view = "Containers"
       THEN \E k \in 1..Len(containers) : Len(containers[k].id) < SliceLen
       ELSE \E k \in 1..Len(images) : Len(images[k].image_id) < SliceLen

\* render_stateful_widget lends the TableState (&mut) to the table widget of
\* the UI library.  The program itself only ever calls select(Some(..)), yet
\* it handles selected() == None in next/previous and in render_docker_tab:
\* the widget may clear the selection when it draws no rows and pull an index
\* past the last row back onto it, and it leaves the state as it is when it
\* draws nothing (an empty area).  Both outcomes are kept.
TableSelections(sel, rows) ==
    {sel,
     IF rows = 0 THEN None
     ELSE IF IsSome(sel) /\ Unwrap(sel) >= rows THEN Some(rows - 1)
     ELSE sel}

\* ------------------------------------------------------------- workloads
\* What the outside hands to one loop iteration of Spec.
SpawnFailed == [spawned |-> FALSE, success |-> FALSE, lines |-> <<>>]
ExitFailure(lines) == [spawned |-> TRUE, success |-> FALSE, lines |-> lines]
ExitSuccess(lines) == [spawned |-> TRUE, success |-> TRUE, lines |-> lines]

Id1 == "c1c1c1c1c1c1"
Id2 == "c2c2c2c2c2c2"
Id3 == "c3c3c3c3c3c3"

PsLine1 == <<Id1, "nginx:latest", "web", "Up 2 hours", "80/tcp">>
PsLine2 == <<Id2, "redis:7", "cache", "Exited (0)", "">>
PsLine3 == <<Id3, "postgres:16", "db", "Up 5 minutes", "5432/tcp", "extra">>
PsMalformed == <<"Cannot connect to the Docker daemon">>

PsOutputs ==
    {SpawnFailed, ExitFailure(<<PsLine1>>), ExitSuccess(<<>>),
     ExitSuccess(<<PsLine1>>), ExitSuccess(<<PsLine2, PsLine1>>),
     ExitSuccess(<<PsLine1, PsMalformed, PsLine2, PsLine3>>)}

StatsLine1 ==
    <<Id1, <<"1", ".", "5", "%">>, "10MiB / 1GiB", <<"2", "%">>,
      <<"1", "k", "B", " ", "/", " ", "2", "M", "B">>, "0B / 0B">>
StatsLine1b ==
    <<Id1, <<"7", "%">>, "20MiB / 1GiB", <<"-", "-">>,
      <<"3", "k", "B", " ", "/", " ", "0", "B">>, "0B / 0B">>
StatsLine2 ==
    <<Id2, <<"0", ".", "2", "%">>, "1MiB / 1GiB", <<"0", ".", "1", "%">>,
      <<"5", "k", "B">>, "0B / 0B">>
StatsMalformed == <<Id3, <<"9", "%">>>>

StatsOutputs ==
    {SpawnFailed, ExitSuccess(<<StatsLine1>>),
     ExitSuccess(<<StatsLine1, StatsMalformed, StatsLine1b, StatsLine2>>)}

ImageLine1 == <<"nginx", "latest", "i1i1i1i1i1i1", "180MB">>
ImageLine2 == <<"redis", "7", "i2i2i2i2i2i2", "40MB">>
ImageMalformed == <<"<none>", "<none>">>

ImagesOutputs ==
    {SpawnFailed, ExitFailure(<<ImageLine1>>), ExitSuccess(<<ImageLine1>>),
     ExitSuccess(<<ImageLine2, ImageMalformed, ImageLine1>>)}

PodLine1 == <<"api-0", "default", "Running", "0", "2024-01-01T00:00:00Z">>
PodLine2 == <<"db-0", "prod", "Pending", "3", "2024-01-02T00:00:00Z">>
PodLine3 == <<"job-1", "batch", "Failed", "1", "2024-01-03T00:00:00Z">>
PodMalformed == <<"No", "resources", "found">>

PodsOutputs ==
    {SpawnFailed, ExitFailure(<<PodLine1>>), ExitSuccess(<<PodLine1>>),
     ExitSuccess(<<PodLine2, PodMalformed, PodLine1>>),
     ExitSuccess(<<PodLine1, PodLine2, PodLine3>>)}

NotCalled == SpawnFailed

\* No listing was run.
NothingFetched ==
    [ps |-> NotCalled, stats |-> NotCalled, images |-> NotCalled, pods |-> NotCalled]

\* The listings one iteration fetches: only those of the active tab are run.
InventoryInputs(tab) ==
    IF tab = "Docker"
    THEN [ps : PsOutputs, stats : StatsOutputs, images : ImagesOutputs, pods : {NotCalled}]
    ELSE IF tab = "Kubernetes"
    THEN [ps : {NotCalled}, stats : {NotCalled}, images : {NotCalled}, pods : PodsOutputs]
    ELSE [ps : {NotCalled}, stats : {NotCalled}, images : {NotCalled}, pods : {NotCalled}]

\* Host readings: cpu_usage in tenths of a percent, memory figures, and the
\* per-interface counters, with the time passed since the previous iteration.
HostSamples ==
    {[cpu_usage |-> 125, used_memory |-> 333, memory |-> 1000,
      networks |-> <<[received |-> 2048, transmitted |-> 1024]>>, dt |-> 1000000],
     [cpu_usage |-> 994, used_memory |-> 999, memory |-> 1000,
      networks |-> <<[received |-> 100, transmitted |-> 50],
                     [received |-> 20, transmitted |-> 5000]>>, dt |-> 0]}

\* ------------------------------------------------------------------ Init
\* AppState::new and the locals of main before the loop.
Init ==
    /\ pc = "tick"
    /\ now = 0
    /\ current_tab = "System"
    /\ docker_list_state = Some(0)
    /\ docker_containers = <<>>
    /\ docker_images = <<>>
    /\ k8s_pods = <<>>
    /\ k8s_list_state = Some(0)
    /\ docker_view = "Containers"
    /\ message = <<>>
    /\ show_create_dialog = FALSE
    /\ create_dialog_state = CreateDialogStateNew
    /\ container_stats_history = <<>>
    /\ cpu_data = Filled(0, WindowLen)
    /\ ram_data = Filled(0, WindowLen)
    /\ network_receive_speed_data = Filled(0, WindowLen)
    /\ network_send_speed_data = Filled(0, WindowLen)
    /\ prev_total_received = None
    /\ prev_total_transmitted = None
    /\ last_update = 0
    /\ receive_rate_kbs = ZeroRate
    /\ send_rate_kbs = ZeroRate
    /\ dispatched = <<>>
    /\ called = NoCall
    /\ last = [op |-> "new", docker |-> None, k8s |-> None,
               focus |-> 0, tabs |-> 0, from |-> 0]
    /\ ticks = 0
    /\ pushed = <<>>
    /\ recorded = <<>>
    /\ sampled = <<>>
    /\ fetched = NothingFetched
    /\ script = 0

\* ------------------------------------------------------------------ tick
\* One pass of the loop body from sys.refresh_all() to the end of
\* terminal.draw: host readings, rates, the four windows, the inventory of the
\* active tab with its history samples, and the frame.
TickWith(host, inv) ==
    LET total_received == SumReceived(host.networks)
        total_transmitted == SumTransmitted(host.networks)
        t == now + host.dt
        elapsed_us == ElapsedMicros(t, last_update)
        rx == RateOf(total_received, prev_total_received,
                     prev_total_transmitted, elapsed_us)
        tx == RateOf(total_transmitted, prev_total_transmitted,
                     prev_total_received, elapsed_us)
        cpu == RoundTenths(host.cpu_usage)
        ram == MemoryUsagePercentage(host.used_memory, host.memory)
        containers == IF current_tab = "Docker"
                      THEN GetDockerContainersWithStats(inv.ps, inv.stats)
                      ELSE docker_containers
        images == IF current_tab = "Docker" THEN GetDockerImages(inv.images)
                  ELSE docker_images
        pods == IF current_tab = "Kubernetes" THEN GetK8sPods(inv.pods)
                ELSE k8s_pods
        rows == IF docker_view = "Containers" THEN Len(containers) ELSE Len(images)
        panics == RenderPanics(current_tab, show_create_dialog, docker_view,
                               containers, images)
    IN
    /\ now' = t
    /\ receive_rate_kbs' = rx
    /\ send_rate_kbs' = tx
    /\ prev_total_received' = Some(total_received)
    /\ prev_total_transmitted' = Some(total_transmitted)
    /\ last_update' = t
    /\ cpu_data' = Slide(cpu_data, cpu)
    /\ ram_data' = Slide(ram_data, ram)
    /\ network_receive_speed_data' = Slide(network_receive_speed_data, RoundRate(rx))
    /\ network_send_speed_data' = Slide(network_send_speed_data, RoundRate(tx))
    /\ docker_containers' = containers
    /\ docker_images' = images
    /\ k8s_pods' = pods
    /\ container_stats_history' =
          IF current_tab = "Docker"
          THEN RecordAll(container_stats_history, containers)
          ELSE container_stats_history
    /\ recorded' = IF current_tab = "Docker" THEN LogAll(recorded, containers)
                   ELSE recorded
    /\ pushed' = Append(pushed, <<cpu, ram, RoundRate(rx), RoundRate(tx)>>)
    /\ sampled' = Append(sampled, [received |-> total_received,
                                   transmitted |-> total_transmitted, at |-> t])
    /\ ticks' = ticks + 1
    /\ last' = Step("Tick")
    /\ called' = NoCall
    \* terminal.draw
    /\ docker_list_state' \in
          IF ~show_create_dialog /\ current_tab = "Docker" /\ ~panics
          THEN TableSelections(docker_list_state, rows)
          ELSE {docker_list_state}
    /\ k8s_list_state' \in
          IF ~show_create_dialog /\ current_tab = "Kubernetes"
          THEN TableSelections(k8s_list_state, Len(pods))
          ELSE {k8s_list_state}
    /\ pc' = IF panics THEN "panicked" ELSE "poll"
    /\ UNCHANGED <<current_tab, docker_view, message, show_create_dialog,
                   create_dialog_state, dispatched, script>>

\* A loop iteration on the inputs the outside may hand it.
Tick ==
    /\ pc = "tick"
    /\ script = 0
    /\ ticks < MaxTicks
    /\ \E host \in HostSamples : \E inv \in InventoryInputs(current_tab) :
          TickWith(host, inv)
    /\ UNCHANGED fetched

\* ------------------------------------------------------------------ input
\* What every key handler leaves alone.
KeyFrame(op) ==
    /\ UNCHANGED <<now, hostVars, ghostVars>>
    /\ last' = Step(op)

\* The same for a handler that calls no action helper.
InputFrame(op) ==
    /\ KeyFrame(op)
    /\ called' = NoCall

\* event::poll timed out, or the event read was not a key.
NoKey ==
    /\ pc = "poll"
    /\ pc' = "tick"
    /\ InputFrame("NoKey")
    /\ UNCHANGED <<appVars, dispatched>>

\* KeyCode::Char('q') => break
KeyQuit ==
    /\ pc = "poll" /\ ~show_create_dialog
    /\ pc' = "done"
    /\ InputFrame("KeyQuit")
    /\ UNCHANGED <<appVars, dispatched>>

\* Ctrl+S, Ctrl+D, Ctrl+K: current_tab = tab
KeySwitchTab(tab) ==
    /\ pc = "poll" /\ ~show_create_dialog
    /\ pc' = "tick"
    /\ current_tab' = tab
    /\ InputFrame(tab)
    /\ UNCHANGED <<docker_list_state, docker_containers, docker_images, k8s_pods,
                   k8s_list_state, docker_view, message, show_create_dialog,
                   create_dialog_state, container_stats_history, dispatched>>

KeyCtrlS == KeySwitchTab("System")
KeyCtrlD == KeySwitchTab("Docker")
KeyCtrlK == KeySwitchTab("Kubernetes")

\* KeyCode::Down
KeyDown ==
    /\ pc = "poll" /\ ~show_create_dialog
    /\ pc' = "tick"
    /\ docker_list_state' =
          IF current_tab = "Docker"
          THEN NextIndex(docker_list_state, DockerItemsLen)
          ELSE docker_list_state
    /\ k8s_list_state' =
          IF current_tab = "Kubernetes"
          THEN NextIndex(k8s_list_state, Len(k8s_pods))
          ELSE k8s_list_state
    /\ InputFrame("KeyDown")
    /\ UNCHANGED <<current_tab, docker_containers, docker_images, k8s_pods,
                   docker_view, message, show_create_dialog,
                   create_dialog_state, container_stats_history, dispatched>>

\* KeyCode::Up
KeyUp ==
    /\ pc = "poll" /\ ~show_create_dialog
    /\ pc' = "tick"
    /\ docker_list_state' =
          IF current_tab = "Docker"
          THEN PreviousIndex(docker_list_state, DockerItemsLen)
          ELSE docker_list_state
    /\ k8s_list_state' =
          IF current_tab = "Kubernetes"
          THEN PreviousIndex(k8s_list_state, Len(k8s_pods))
          ELSE k8s_list_state
    /\ InputFrame("KeyUp")
    /\ UNCHANGED <<current_tab, docker_containers, docker_images, k8s_pods,
                   docker_view, message, show_create_dialog,
                   create_dialog_state, container_stats_history, dispatched>>

\* The view Tab switches to.
OtherView(view) == IF view = "Containers" THEN "Images" ELSE "Containers"

\* The selection Tab leaves: docker_list_state.select(Some(0)).
SwitchedSelection(new_len) == Some(0)

\* KeyCode::Tab if current_tab == Docker (any other tab: no arm matches)
KeyTab ==
    /\ pc = "poll" /\ ~show_create_dialog
    /\ pc' = "tick"
    /\ IF current_tab = "Docker"
       THEN /\ docker_view' = OtherView(docker_view)
            /\ docker_list_state' =
                  SwitchedSelection(IF OtherView(docker_view) = "Containers"
                                    THEN Len(docker_containers)
                                    ELSE Len(docker_images))
       ELSE UNCHANGED <<docker_view, docker_list_state>>
    /\ InputFrame("KeyTab")
    /\ UNCHANGED <<current_tab, docker_containers, docker_images, k8s_pods,
                   k8s_list_state, message, show_create_dialog,
                   create_dialog_state, container_stats_history, dispatched>>

\* a lookup that falls back on the last element for an index past the end.
GetClamped(list, i) ==
    IF list = <<>> THEN None
    ELSE IF i < Len(list) THEN Some(list[i + 1]) ELSE Some(list[Len(list)])

\* Vec::get: Some(element) inside the list, None outside.
Get(list, i) == IF i < Len(list) THEN Some(list[i + 1]) ELSE None

\* A fire-and-forget helper: Command::new(..).spawn().ok(), the result dropped.
Spawn(action, target) == Append(dispatched, [action |-> action, target |-> target])

\* KeyCode::Char('n') if current_tab == Docker
KeyN ==
    /\ pc = "poll" /\ ~show_create_dialog
    /\ pc' = "tick"
    /\ IF current_tab = "Docker"
       THEN /\ show_create_dialog' = TRUE
            /\ create_dialog_state' = CreateDialogStateNew
       ELSE UNCHANGED <<show_create_dialog, create_dialog_state>>
    /\ InputFrame("KeyN")
    /\ UNCHANGED <<current_tab, docker_list_state, docker_containers,
                   docker_images, k8s_pods, k8s_list_state, docker_view, message,
                   container_stats_history, dispatched>>

\* a handler that also puts the Docker selection back on the first row.
LifecycleFrameResetting ==
    /\ docker_list_state' = Some(0)
    /\ UNCHANGED <<current_tab, docker_containers, docker_images, k8s_pods,
                   k8s_list_state, docker_view, show_create_dialog,
                   create_dialog_state, container_stats_history>>

\* What only `message` and the outside see of a handler.
LifecycleFrame ==
    UNCHANGED <<current_tab, docker_list_state, docker_containers, docker_images,
                k8s_pods, k8s_list_state, docker_view, show_create_dialog,
                create_dialog_state, container_stats_history>>

\* The preset keys and what each creates and reports.
Presets ==
    {[key |-> "p", action |-> "create_postgres", text |-> "Creating PostgreSQL container..."],
     [key |-> "r", action |-> "create_redis", text |-> "Creating Redis container..."],
     [key |-> "m", action |-> "create_mongodb", text |-> "Creating MongoDB container..."],
     [key |-> "g", action |-> "create_grafana", text |-> "Creating Grafana container..."]}

\* a message that reports a preset whose process could not be spawned.
PresetMessageChecked(preset, outcome) ==
    IF outcome = "spawned" THEN <<preset.text>>
    ELSE <<"Failed to execute docker command: ", "io error">>

\* app_state.message after a preset key: the same text for every outcome.
PresetMessage(preset, outcome) == <<preset.text>>

\* KeyCode::Char('p' | 'r' | 'm' | 'g') if current_tab == Docker
KeyPreset ==
    /\ pc = "poll" /\ ~show_create_dialog
    /\ pc' = "tick"
    /\ \E preset \in Presets :
          IF current_tab = "Docker"
          THEN /\ dispatched' = Spawn(preset.action, "")
               /\ called' \in SpawnOutcomes
               /\ message' = PresetMessage(preset, called')
          ELSE UNCHANGED <<dispatched, message>> /\ called' = NoCall
    /\ KeyFrame("KeyPreset")
    /\ LifecycleFrame

\* if let Some(selected) = sel { if let Some(item) = items.get(selected) { .. } }
\* on items given as the target handed to the helper and the name shown.
ActOnSelected(sel, items, action, text) ==
    IF IsSome(sel) /\ IsSome(Get(items, Unwrap(sel)))
    THEN /\ dispatched' = Spawn(action, Unwrap(Get(items, Unwrap(sel))).target)
         /\ called' \in SpawnOutcomes
         /\ message' = <<text, Unwrap(Get(items, Unwrap(sel))).shown>>
    ELSE UNCHANGED <<dispatched, message>> /\ called' = NoCall

\* &container.id and container.name of every container
ContainerTargets ==
    [k \in 1..Len(docker_containers) |->
        [target |-> docker_containers[k].id, shown |-> docker_containers[k].name]]

\* &image.image_id and image.repository of every image
ImageTargets ==
    [k \in 1..Len(docker_images) |->
        [target |-> docker_images[k].image_id, shown |-> docker_images[k].repository]]

\* (&pod.name, &pod.namespace) and pod.name of every pod
PodTargets ==
    [k \in 1..Len(k8s_pods) |->
        [target |-> <<k8s_pods[k].name, k8s_pods[k].namespace>>,
         shown |-> k8s_pods[k].name]]

\* KeyCode::Char('x') if current_tab == Docker
KeyX ==
    /\ pc = "poll" /\ ~show_create_dialog
    /\ pc' = "tick"
    /\ IF current_tab # "Docker"
       THEN UNCHANGED <<dispatched, message>> /\ called' = NoCall
       ELSE IF docker_view = "Containers"
       THEN ActOnSelected(docker_list_state, ContainerTargets, "stop",
                          "Stopped container: ")
       ELSE ActOnSelected(docker_list_state, ImageTargets, "rmi", "Deleted image: ")
    /\ KeyFrame("KeyX")
    /\ LifecycleFrame

\* The keys bound to one container action in the Containers view.
ContainerKeys ==
    {[key |-> "s", action |-> "start", text |-> "Started container: "],
     [key |-> "t", action |-> "restart", text |-> "Restarting container: "],
     [key |-> "Delete", action |-> "rm", text |-> "Deleted container: "]}

\* KeyCode::Char('s') | Char('t') | Delete
\*     if current_tab == Docker && docker_view == Containers
KeyContainerAction ==
    /\ pc = "poll" /\ ~show_create_dialog
    /\ pc' = "tick"
    /\ \E k \in ContainerKeys :
          IF current_tab = "Docker" /\ docker_view = "Containers"
          THEN ActOnSelected(docker_list_state, ContainerTargets, k.action, k.text)
          ELSE UNCHANGED <<dispatched, message>> /\ called' = NoCall
    /\ KeyFrame("KeyContainerAction")
    /\ LifecycleFrame

\* KeyCode::Char('d') if current_tab == Kubernetes
KeyD ==
    /\ pc = "poll" /\ ~show_create_dialog
    /\ pc' = "tick"
    /\ IF current_tab = "Kubernetes"
       THEN ActOnSelected(k8s_list_state, PodTargets, "delete_pod", "Deleted pod: ")
       ELSE UNCHANGED <<dispatched, message>> /\ called' = NoCall
    /\ KeyFrame("KeyD")
    /\ LifecycleFrame

\* ----------------------------------------------------------- create dialog
\* Characters typed into the dialog by the explored runs.
DialogChars == {"a", ",", " "}

\* a lookup that hands out the image name whatever the focus.
CurrentFieldFirst(state) == "image_name"

\* CreateDialogState::get_current_field_mut: the field the focus index names.
CurrentField(state) ==
    CASE state.selected_field = 0 -> "image_name"
      [] state.selected_field = 1 -> "container_name"
      [] state.selected_field = 2 -> "ports"
      [] state.selected_field = 3 -> "env_vars"
      [] state.selected_field = 4 -> "volumes"
      [] state.selected_field = 5 -> "command"
      [] OTHER -> "image_name"

\* What the dialog keys leave alone.
DialogFrame ==
    UNCHANGED <<current_tab, docker_list_state, docker_containers, docker_images,
                k8s_pods, k8s_list_state, docker_view, container_stats_history>>

\* KeyCode::Esc
DialogEsc ==
    /\ pc = "poll" /\ show_create_dialog
    /\ pc' = "tick"
    /\ show_create_dialog' = FALSE
    /\ create_dialog_state' = CreateDialogStateNew
    /\ InputFrame("DialogEsc")
    /\ DialogFrame
    /\ UNCHANGED <<message, dispatched>>

\* KeyCode::Tab: (selected_field + 1) % 6
FocusNext(f) == (f + 1) % FieldCount

\* a step back that stops at the first field.
FocusPreviousNoWrap(f) == IF f = 0 THEN 0 ELSE f - 1

\* KeyCode::BackTab: if selected_field == 0 { 5 } else { selected_field - 1 }
FocusPrevious(f) == IF f = 0 THEN 5 ELSE f - 1

DialogTab ==
    /\ pc = "poll" /\ show_create_dialog
    /\ pc' = "tick"
    /\ create_dialog_state' =
          [create_dialog_state EXCEPT !.selected_field = FocusNext(@)]
    /\ InputFrame("DialogTab")
    /\ DialogFrame
    /\ UNCHANGED <<show_create_dialog, message, dispatched>>

DialogBackTab ==
    /\ pc = "poll" /\ show_create_dialog
    /\ pc' = "tick"
    /\ create_dialog_state' =
          [create_dialog_state EXCEPT !.selected_field = FocusPrevious(@)]
    /\ InputFrame("DialogBackTab")
    /\ DialogFrame
    /\ UNCHANGED <<show_create_dialog, message, dispatched>>

\* KeyCode::Char(c): get_current_field_mut().push(c)
DialogChar ==
    /\ pc = "poll" /\ show_create_dialog
    /\ pc' = "tick"
    /\ \E c \in DialogChars :
          create_dialog_state' =
             [create_dialog_state EXCEPT ![CurrentField(create_dialog_state)] =
                 Append(@, c)]
    /\ InputFrame("DialogChar")
    /\ DialogFrame
    /\ UNCHANGED <<show_create_dialog, message, dispatched>>

\* String::pop: drop the last character, nothing on an empty string.
Pop(text) == IF text = <<>> THEN text ELSE SubSeq(text, 1, Len(text) - 1)

\* KeyCode::Backspace: get_current_field_mut().pop()
DialogBackspace ==
    /\ pc = "poll" /\ show_create_dialog
    /\ pc' = "tick"
    /\ create_dialog_state' =
          [create_dialog_state EXCEPT ![CurrentField(create_dialog_state)] = Pop(@)]
    /\ InputFrame("DialogBackspace")
    /\ DialogFrame
    /\ UNCHANGED <<show_create_dialog, message, dispatched>>

\* str::split_whitespace
SplitWhitespace(text) == SelectSeq(Split(text, " "), LAMBDA part : part # <<>>)

\* split(',').flat_map(|p| vec![flag, p.trim()]) of a non-empty field
RECURSIVE FlagEach(_, _)
FlagEach(flag, parts) ==
    IF parts = <<>> THEN <<>>
    ELSE <<<<flag>>, Trim(parts[1])>> \o FlagEach(flag, RemoveFirst(parts))

FlagArgs(flag, text) ==
    IF text = <<>> THEN <<>> ELSE FlagEach(flag, Split(text, ","))

\* The argument vector create_custom_container hands to docker.
CustomArgs(state) ==
    <<<<"run">>, <<"-d">>>>
        \o (IF state.container_name = <<>> THEN <<>>
            ELSE <<<<"--name">>, state.container_name>>)
        \o FlagArgs("-p", state.ports)
        \o FlagArgs("-e", state.env_vars)
        \o FlagArgs("-v", state.volumes)
        \o <<state.image_name>>
        \o (IF state.command = <<>> THEN <<>> ELSE SplitWhitespace(state.command))

\* How Command::output() of the create call can end.
CreateOutcomes == {"success", "exit_failure", "spawn_failed"}

\* a result that skips the check of the image name.
CustomResultUnchecked(state, outcome) ==
    IF outcome = "success"
    THEN <<"Container created successfully from image: ", state.image_name>>
    ELSE IF outcome = "exit_failure"
    THEN <<"Error creating container: ", "stderr">>
    ELSE <<"Failed to execute docker command: ", "io error">>

\* The String create_custom_container returns for an outcome of the call.
CustomResult(state, outcome) ==
    IF state.image_name = <<>> THEN <<"Error: Image name is required!">>
    ELSE IF outcome = "success"
    THEN <<"Container created successfully from image: ", state.image_name>>
    ELSE IF outcome = "exit_failure"
    THEN <<"Error creating container: ", "stderr">>
    ELSE <<"Failed to execute docker command: ", "io error">>

\* KeyCode::Enter
DialogEnter ==
    /\ pc = "poll" /\ show_create_dialog
    /\ pc' = "tick"
    /\ \E outcome \in CreateOutcomes :
          /\ message' = CustomResult(create_dialog_state, outcome)
          /\ dispatched' =
                IF create_dialog_state.image_name = <<>> THEN dispatched
                ELSE Spawn("run", CustomArgs(create_dialog_state))
          /\ called' =
                IF create_dialog_state.image_name = <<>> THEN NoCall ELSE outcome
    /\ show_create_dialog' = FALSE
    /\ create_dialog_state' = CreateDialogStateNew
    /\ KeyFrame("DialogEnter")
    /\ DialogFrame

\* Any other key while the dialog is open: _ => {}
DialogOtherKey ==
    /\ pc = "poll" /\ show_create_dialog
    /\ pc' = "tick"
    /\ InputFrame("DialogOtherKey")
    /\ UNCHANGED <<appVars, dispatched>>

Next ==
    \/ Tick
    \/ NoKey
    \/ KeyQuit
    \/ KeyCtrlS
    \/ KeyCtrlD
    \/ KeyCtrlK
    \/ KeyDown
    \/ KeyUp
    \/ KeyTab
    \/ KeyN
    \/ KeyPreset
    \/ KeyX
    \/ KeyContainerAction
    \/ KeyD
    \/ DialogEsc
    \/ DialogTab
    \/ DialogBackTab
    \/ DialogChar
    \/ DialogBackspace
    \/ DialogEnter
    \/ DialogOtherKey

Spec == Init /\ [][Next]_vars

\* ------------------------------------------------------------ long runs
\* A run long enough to fill and overflow the windows of 60: the workload is
\* drawn once, at the start, and iteration k reads its k-th element.
Scripts == {1, 2, 3, 4}

DigitChars == <<"0", "1", "2", "3", "4", "5", "6", "7", "8", "9">>

\* The decimal text of a natural number.
RECURSIVE ToText(_)
ToText(n) ==
    IF n < 10 THEN <<DigitChars[n + 1]>>
    ELSE Append(ToText(n \div 10), DigitChars[(n % 10) + 1])

ScriptHost(s, k) ==
    [cpu_usage |-> (k * 37 + s * 11) % 1001,
     used_memory |-> (k * 13 + s) % 1000,
     memory |-> 1000,
     networks |-> IF s = 4
                  THEN <<[received |-> k * 2048, transmitted |-> k * 1024]>>
                  ELSE <<[received |-> (k * k * 64 * s) % 9000,
                          transmitted |-> k * 512]>>,
     dt |-> IF s # 4 /\ k % 3 = 0 THEN 250000 ELSE 1000000]

ScriptStatsLine(id, s, k) ==
    <<id, ToText(k) \o <<".", "5", "%">>, "10MiB / 1GiB", ToText((k * 7) % 100) \o <<"%">>,
      ToText(k) \o <<"k", "B", " ", "/", " ">> \o ToText(s) \o <<"M", "B">>,
      "0B / 0B">>

ScriptPs(s, k) ==
    IF s = 1 THEN ExitSuccess(<<PsLine1>>)
    ELSE IF s = 2
    THEN (IF k % 5 = 4 THEN SpawnFailed
          ELSE IF k % 2 = 0 THEN ExitSuccess(<<PsLine1, PsLine2>>)
          ELSE ExitSuccess(<<PsLine2, PsMalformed>>))
    ELSE ExitSuccess(<<PsLine1, PsLine2, PsLine1>>)

ScriptInv(s, k) ==
    [ps |-> ScriptPs(s, k),
     stats |-> IF k % 7 = 6 THEN SpawnFailed
               ELSE ExitSuccess(<<ScriptStatsLine(Id1, s, k),
                                  ScriptStatsLine(Id2, s, k + 1)>>),
     images |-> IF k % 2 = 0 THEN ExitSuccess(<<ImageLine1>>) ELSE SpawnFailed,
     pods |-> NotCalled]

InitLong ==
    /\ pc = "tick"
    /\ now = 0
    /\ current_tab = "System"
    /\ docker_list_state = Some(0)
    /\ docker_containers = <<>>
    /\ docker_images = <<>>
    /\ k8s_pods = <<>>
    /\ k8s_list_state = Some(0)
    /\ docker_view = "Containers"
    /\ message = <<>>
    /\ show_create_dialog = FALSE
    /\ create_dialog_state = CreateDialogStateNew
    /\ container_stats_history = <<>>
    /\ cpu_data = Filled(0, WindowLen)
    /\ ram_data = Filled(0, WindowLen)
    /\ network_receive_speed_data = Filled(0, WindowLen)
    /\ network_send_speed_data = Filled(0, WindowLen)
    /\ prev_total_received = None
    /\ prev_total_transmitted = None
    /\ last_update = 0
    /\ receive_rate_kbs = ZeroRate
    /\ send_rate_kbs = ZeroRate
    /\ dispatched = <<>>
    /\ called = NoCall
    /\ last = [op |-> "new", docker |-> None, k8s |-> None,
               focus |-> 0, tabs |-> 0, from |-> 0]
    /\ ticks = 0
    /\ pushed = <<>>
    /\ recorded = <<>>
    /\ sampled = <<>>
    /\ fetched = NothingFetched
    /\ script \in Scripts

\* A loop iteration on the next element of the workload.
LongTick ==
    /\ pc = "tick"
    /\ script # 0
    /\ ticks < MaxLongTicks
    /\ TickWith(ScriptHost(script, ticks), ScriptInv(script, ticks))
    /\ UNCHANGED fetched

NextLong ==
    \/ LongTick
    \/ NoKey
    \/ KeyCtrlD

SpecLong == InitLong /\ [][NextLong]_vars

\* ------------------------------------------------------ tracked listings
\* Runs that keep the listings of the last iteration beside the state they
\* lead to; the identities of these listings may be shorter than 12 characters.
PsShortId == <<"abc", "busybox", "tiny", "Up 1 second", "">>
ImageShortId == <<"busybox", "latest", "abc", "1MB">>

FetchInputs(tab) ==
    IF tab = "Docker"
    THEN [ps : PsOutputs \cup {ExitSuccess(<<PsShortId>>)},
          stats : StatsOutputs,
          images : ImagesOutputs \cup {ExitSuccess(<<ImageShortId>>)},
          pods : {NotCalled}]
    ELSE InventoryInputs(tab)

\* One host reading for these runs.
FetchHost == CHOOSE host \in HostSamples : host.dt > 0

FetchTick ==
    /\ pc = "tick"
    /\ script = 0
    /\ ticks < MaxFetchTicks
    /\ \E inv \in FetchInputs(current_tab) :
          /\ TickWith(FetchHost, inv)
          /\ fetched' = inv

NextFetch ==
    \/ FetchTick
    \/ NoKey
    \/ KeyCtrlD
    \/ KeyCtrlK
    \/ KeyTab
    \/ KeyN

SpecFetch == Init /\ [][NextFetch]_vars

\* ------------------------------------------------------- dialog sessions
\* Runs on a host where docker and kubectl cannot be run: every listing is
\* empty, and the keys are those that open, fill, submit and leave the dialog.
ToolsMissing ==
    [ps |-> SpawnFailed, stats |-> SpawnFailed, images |-> SpawnFailed,
     pods |-> SpawnFailed]

DialogTick ==
    /\ pc = "tick"
    /\ script = 0
    /\ ticks < MaxDialogTicks
    /\ TickWith(FetchHost, ToolsMissing)
    /\ UNCHANGED fetched

NextDialog ==
    \/ DialogTick
    \/ NoKey
    \/ KeyCtrlD
    \/ KeyN
    \/ DialogEsc
    \/ DialogTab
    \/ DialogBackTab
    \/ DialogChar
    \/ DialogBackspace
    \/ DialogEnter
    \/ DialogOtherKey

SpecDialog == Init /\ [][NextDialog]_vars

\* ------------------------------------------------------ creating sessions
\* Runs on the same host with every key of the session, long enough to open
\* the dialog, move the focus, type, submit, and press a preset key.
CreateTick ==
    /\ pc = "tick"
    /\ script = 0
    /\ ticks < MaxCreateTicks
    /\ TickWith(FetchHost, ToolsMissing)
    /\ UNCHANGED fetched

NextCreate ==
    \/ CreateTick
    \/ NoKey
    \/ KeyQuit
    \/ KeyCtrlS
    \/ KeyCtrlD
    \/ KeyCtrlK
    \/ KeyDown
    \/ KeyUp
    \/ KeyTab
    \/ KeyN
    \/ KeyPreset
    \/ KeyX
    \/ KeyContainerAction
    \/ KeyD
    \/ DialogEsc
    \/ DialogTab
    \/ DialogBackTab
    \/ DialogChar
    \/ DialogBackspace
    \/ DialogEnter
    \/ DialogOtherKey

SpecCreate == Init /\ [][NextCreate]_vars

\* ================================================================ claims
IsTickStep == pc = "tick" /\ pc' # "tick"

Listed(id) == \E k \in 1..Len(docker_containers) : docker_containers[k].id = id

\* The selection the specification's state machine allows for a list of n items.
WellFormedSelection(sel, n) ==
    IF n > 0 THEN IsSome(sel) /\ Unwrap(sel) < n ELSE sel = None

\* C1: in every reachable state the Docker selection is inside the displayed
\* Docker list and the Kubernetes selection inside the pod list, and is None
\* when the list is empty.
C1_SelectionInsideList ==
    /\ WellFormedSelection(docker_list_state, DockerItemsLen)
    /\ WellFormedSelection(k8s_list_state, Len(k8s_pods))

\* on_refresh of the specification: clamp into the new list, focus 0 from Empty.
Refreshed(sel, n) == IF IsSome(sel) THEN Some(Min(Unwrap(sel), n - 1)) ELSE Some(0)

\* C2: a tick that replaces the displayed list by n > 0 items leaves the
\* selection at Some(min(i, n-1)) from Some(i), and at Some(0) from None.
C2_TickClampsSelection ==
    [][IsTickStep =>
          /\ (current_tab = "Docker" /\ DockerItemsLen' > 0
                => docker_list_state' = Refreshed(docker_list_state, DockerItemsLen'))
          /\ (current_tab = "Kubernetes" /\ Len(k8s_pods') > 0
                => k8s_list_state' = Refreshed(k8s_list_state, Len(k8s_pods')))]_vars

\* C3: switching the Docker view leaves the selection at Some(0) when the list
\* of the new view is non-empty and at None when it is empty.
C3_SwitchViewResets ==
    [][docker_view' # docker_view =>
          docker_list_state' = IF DockerItemsLen' > 0 THEN Some(0) ELSE None]_vars

\* C4: from Some(i) inside a list of n > 0 items, next selects (i+1) mod n and
\* previous selects (i-1) mod n, in the Docker table and in the pod table.
C4_NavigationWraps ==
    [][/\ KeyDown /\ current_tab = "Docker"
            /\ WellFormedSelection(docker_list_state, DockerItemsLen)
            /\ DockerItemsLen > 0
          => docker_list_state' = Some((Unwrap(docker_list_state) + 1) % DockerItemsLen)
       /\ KeyDown /\ current_tab = "Kubernetes"
            /\ WellFormedSelection(k8s_list_state, Len(k8s_pods))
            /\ Len(k8s_pods) > 0
          => k8s_list_state' = Some((Unwrap(k8s_list_state) + 1) % Len(k8s_pods))
       /\ KeyUp /\ current_tab = "Docker"
            /\ WellFormedSelection(docker_list_state, DockerItemsLen)
            /\ DockerItemsLen > 0
          => docker_list_state' =
                Some((Unwrap(docker_list_state) + DockerItemsLen - 1) % DockerItemsLen)
       /\ KeyUp /\ current_tab = "Kubernetes"
            /\ WellFormedSelection(k8s_list_state, Len(k8s_pods))
            /\ Len(k8s_pods) > 0
          => k8s_list_state' =
                Some((Unwrap(k8s_list_state) + Len(k8s_pods) - 1) % Len(k8s_pods))]_vars

\* C4 witness: next has wrapped from the last row of a list of at least two
\* rows to row 0.
C4_Witness ==
    /\ last.op = "KeyDown"
    /\ current_tab = "Docker"
    /\ DockerItemsLen >= 2
    /\ last.docker = Some(DockerItemsLen - 1)
    /\ docker_list_state = Some(0)

\* The application state and the locals of main: everything but the loop
\* position and the bookkeeping of the run.
sessionVars == <<appVars, hostVars, dispatched>>

\* C5: on an empty displayed list next and previous change nothing of the
\* session, and the selection is Empty (None) afterwards.
C5_EmptyListStaysEmpty ==
    [][(KeyDown \/ KeyUp) =>
          /\ (current_tab = "Docker" /\ DockerItemsLen = 0
                => UNCHANGED sessionVars /\ docker_list_state' = None)
          /\ (current_tab = "Kubernetes" /\ Len(k8s_pods) = 0
                => UNCHANGED sessionVars /\ k8s_list_state' = None)]_vars

\* C5, the part the code keeps: on an empty displayed list next and previous
\* change nothing of the session.
C5_EmptyListNoOp ==
    [][(KeyDown \/ KeyUp) =>
          /\ (current_tab = "Docker" /\ DockerItemsLen = 0 => UNCHANGED sessionVars)
          /\ (current_tab = "Kubernetes" /\ Len(k8s_pods) = 0
                => UNCHANGED sessionVars)]_vars

\* The j-th component of every tuple pushed so far, oldest first.
Column(j) == [k \in 1..Len(pushed) |-> pushed[k][j]]

\* The window of capacity 60 over 60 zeros followed by the values pushed.
WindowOf(j) == LastN(Filled(0, WindowLen) \o Column(j), WindowLen)

\* C6: each of the four host buffers has length 60 and holds, in order, the
\* last 60 elements of 60 zeros followed by the values pushed so far.
C6_HostWindowsSlide ==
    /\ Len(cpu_data) = WindowLen /\ cpu_data = WindowOf(1)
    /\ Len(ram_data) = WindowLen /\ ram_data = WindowOf(2)
    /\ Len(network_receive_speed_data) = WindowLen
    /\ network_receive_speed_data = WindowOf(3)
    /\ Len(network_send_speed_data) = WindowLen
    /\ network_send_speed_data = WindowOf(4)

\* C6 witness: 70 ticks have pushed; the window starts at the 11th value pushed
\* and ends at the 70th, and no initial zero is left in it.
C6_Witness ==
    /\ Len(pushed) = WindowLen + 10
    /\ ram_data[1] = pushed[11][2]
    /\ ram_data[WindowLen] = pushed[70][2]
    /\ pushed[11][2] # pushed[10][2]
    /\ \A k \in 1..WindowLen : network_send_speed_data[k] > 0

\* C7: the history of an identity holds the last min(n, 60) of the n samples
\* recorded for it, in recording order, and never more than 60.
C7_HistoryKeepsLast60 ==
    /\ DOMAIN container_stats_history = DOMAIN recorded
    /\ \A id \in DOMAIN recorded :
          /\ Len(container_stats_history[id]) = Min(Len(recorded[id]), 60)
          /\ container_stats_history[id] = LastN(recorded[id], 60)

\* C7 witness: 70 samples recorded for one identity, 60 kept, the oldest kept
\* being the 11th recorded and differing from the 10 discarded.
C7_Witness ==
    \E id \in DOMAIN recorded :
        /\ Len(recorded[id]) = 70
        /\ Len(container_stats_history[id]) = 60
        /\ container_stats_history[id][1] = recorded[id][11]
        /\ \A k \in 1..10 : recorded[id][k] # recorded[id][11]

\* C8: every identity of the current container list has a history entry with
\* at least one sample.
C8_ListedHasHistory ==
    \A k \in 1..Len(docker_containers) :
        /\ docker_containers[k].id \in DOMAIN container_stats_history
        /\ Len(container_stats_history[docker_containers[k].id]) >= 1

\* C8 witness: a tick has just refreshed the list, and it holds an identity
\* seen for the first time beside one seen before.
C8_Witness ==
    /\ last.op = "Tick"
    /\ current_tab = "Docker"
    /\ \E j, k \in 1..Len(docker_containers) :
          /\ Len(container_stats_history[docker_containers[j].id]) = 1
          /\ Len(container_stats_history[docker_containers[k].id]) >= 2

\* C9: no step removes a history entry; a step that is no tick leaves every
\* history as it is, and a tick leaves the history of every identity missing
\* from the refreshed list as it is.
C9_HistoryOnlyGrows ==
    [][/\ \A id \in DOMAIN container_stats_history :
             /\ id \in DOMAIN container_stats_history'
             /\ (~Listed(id)' =>
                    container_stats_history'[id] = container_stats_history[id])
       /\ (~IsTickStep => container_stats_history' = container_stats_history)]_vars

\* C9 witness: a Docker tick has refreshed the list, and an identity recorded
\* earlier is missing from it while another is listed.
C9_Witness ==
    /\ last.op = "Tick"
    /\ current_tab = "Docker"
    /\ docker_containers # <<>>
    /\ \E id \in DOMAIN container_stats_history :
          ~Listed(id) /\ Len(container_stats_history[id]) >= 1

\* C10: after the first tick both rates are 0 and the value at the tail of
\* both network buffers is 0, whatever the counters read.
C10_FirstTickRatesZero ==
    ticks = 1 =>
        /\ receive_rate_kbs[1] = 0
        /\ send_rate_kbs[1] = 0
        /\ network_receive_speed_data[WindowLen] = 0
        /\ network_send_speed_data[WindowLen] = 0

\* C10 witness: the first tick has read non-zero counters and stored them.
C10_Witness ==
    /\ ticks = 1
    /\ pc = "poll"
    /\ prev_total_received = Some(2048)
    /\ prev_total_transmitted = Some(1024)

\* The sample read by the latest iteration and the one read just before it.
Latest(log) == log[Len(log)]
Before(log) == log[Len(log) - 1]

\* C11: a tick that reads a counter below the value stored by the previous
\* tick computes the rate 0 for that counter and pushes 0 for it, for the
\* receive and the transmit counter each on its own; no rate is negative; the
\* rate of a counter going from 100 to 80 within one second is 0.
C11_DecreaseGivesZero ==
    [][IsTickStep /\ sampled # <<>> =>
          /\ (Latest(sampled').received < Latest(sampled).received
                => /\ prev_total_received = Some(Latest(sampled).received)
                   /\ receive_rate_kbs'[1] = 0
                   /\ network_receive_speed_data'[WindowLen] = 0)
          /\ (Latest(sampled').transmitted < Latest(sampled).transmitted
                => /\ prev_total_transmitted = Some(Latest(sampled).transmitted)
                   /\ send_rate_kbs'[1] = 0
                   /\ network_send_speed_data'[WindowLen] = 0)
          /\ receive_rate_kbs'[1] >= 0 /\ send_rate_kbs'[1] >= 0
          /\ RateOf(80, Some(100), Some(0), 1000000)[1] = 0]_vars

\* C11 witness: the latest tick has read a receive counter below the previous
\* one and a larger transmit counter; the receive rate is 0, the send rate is not.
C11_Witness ==
    /\ last.op = "Tick"
    /\ Len(sampled) >= 2
    /\ Latest(sampled).received < Before(sampled).received
    /\ Latest(sampled).transmitted > Before(sampled).transmitted
    /\ receive_rate_kbs[1] = 0
    /\ send_rate_kbs[1] > 0

\* C12: every tick stores the counters and the instant it sampled as the
\* previous sample, whether or not a rate was computed or a counter decreased,
\* and from the second tick on each rate is the clamped difference to the
\* sample of the tick just before, over the time since that tick.
C12_PreviousIsLastTick ==
    [][IsTickStep =>
          /\ Len(sampled') = Len(sampled) + 1
          /\ prev_total_received' = Some(Latest(sampled').received)
          /\ prev_total_transmitted' = Some(Latest(sampled').transmitted)
          /\ last_update' = Latest(sampled').at
          /\ (sampled # <<>> =>
                LET elapsed_us == Max(Latest(sampled').at - Latest(sampled).at, 1) IN
                /\ receive_rate_kbs' =
                      RateKbs(SaturatingSub(Latest(sampled').received,
                                            Latest(sampled).received), elapsed_us)
                /\ send_rate_kbs' =
                      RateKbs(SaturatingSub(Latest(sampled').transmitted,
                                            Latest(sampled).transmitted), elapsed_us))]_vars

\* C12 witness: three ticks; the third read a transmit counter below the
\* second's and both counters differing from the first's, and its readings
\* are the stored previous sample.
C12_Witness ==
    /\ last.op = "Tick"
    /\ Len(sampled) = 3
    /\ sampled[3].transmitted < sampled[2].transmitted
    /\ sampled[1].received # sampled[2].received
    /\ sampled[3].at > sampled[2].at
    /\ prev_total_received = Some(sampled[3].received)
    /\ prev_total_transmitted = Some(sampled[3].transmitted)
    /\ last_update = sampled[3].at
    /\ send_rate_kbs[1] = 0

\* v is delta_bytes / 1024 / elapsed rounded to the nearest integer, a half
\* rounded up, with the quotient written as delta * 15625 / (16 * elapsed_us).
IsRounded(v, delta_bytes, elapsed_us) ==
    /\ 2 * (v * 16 * elapsed_us - delta_bytes * 15625) <= 16 * elapsed_us
    /\ 2 * (delta_bytes * 15625 - v * 16 * elapsed_us) < 16 * elapsed_us

\* C13: from the second tick on the tail of each network buffer is the rounded
\* value of delta_bytes / 1024 / elapsed_seconds of its counter; counters
\* (0, 0) followed one second later by (2048, 1024) give the rates 2 and 1 KB/s
\* and the tails 2 and 1.
C13_RateIsKilobytesPerSecond ==
    Len(sampled) >= 2 =>
        LET elapsed_us == Max(Latest(sampled).at - Before(sampled).at, 1) IN
        /\ IsRounded(network_receive_speed_data[WindowLen],
                     SaturatingSub(Latest(sampled).received, Before(sampled).received),
                     elapsed_us)
        /\ IsRounded(network_send_speed_data[WindowLen],
                     SaturatingSub(Latest(sampled).transmitted,
                                   Before(sampled).transmitted),
                     elapsed_us)
        /\ ((/\ Len(sampled) = 2
             /\ sampled[1].received = 0 /\ sampled[1].transmitted = 0
             /\ sampled[2].received = 2048 /\ sampled[2].transmitted = 1024
             /\ sampled[2].at - sampled[1].at = 1000000)
            => (/\ receive_rate_kbs[1] = 2 * receive_rate_kbs[2]
                /\ send_rate_kbs[1] = send_rate_kbs[2]
                /\ network_receive_speed_data[WindowLen] = 2
                /\ network_send_speed_data[WindowLen] = 1))

\* C13 witness: the second tick came one second after a first tick that read
\* (0, 0) and has read (2048, 1024); the tails are 2 and 1.
C13_Witness ==
    /\ Len(sampled) = 2
    /\ sampled[1].received = 0 /\ sampled[1].transmitted = 0
    /\ sampled[2].received = 2048 /\ sampled[2].transmitted = 1024
    /\ sampled[2].at - sampled[1].at = 1000000
    /\ network_receive_speed_data[WindowLen] = 2
    /\ network_send_speed_data[WindowLen] = 1

\* C14: every tick, on every tab and whatever the listings return, pushes one
\* value at the tail of each of the four host buffers, evicting the oldest,
\* and stores the counters it sampled as the previous sample.
C14_TickAlwaysPushes ==
    [][IsTickStep =>
          /\ Len(pushed') = Len(pushed) + 1
          /\ cpu_data' = Append(RemoveFirst(cpu_data), Latest(pushed')[1])
          /\ ram_data' = Append(RemoveFirst(ram_data), Latest(pushed')[2])
          /\ network_receive_speed_data' =
                Append(RemoveFirst(network_receive_speed_data), Latest(pushed')[3])
          /\ network_send_speed_data' =
                Append(RemoveFirst(network_send_speed_data), Latest(pushed')[4])
          /\ prev_total_received' = Some(Latest(sampled').received)
          /\ prev_total_transmitted' = Some(Latest(sampled').transmitted)
          /\ Len(sampled') = Len(pushed')]_vars

\* C14 witness: a tick on the Docker tab whose image listing failed (the only
\* way the runs get an empty image list after one was held) has pushed its
\* values: the tails are the tuple pushed last, and its cpu value is not 0.
C14_Witness ==
    /\ last.op = "Tick"
    /\ current_tab = "Docker"
    /\ docker_images = <<>>
    /\ docker_containers = <<>>
    /\ DOMAIN container_stats_history # {}
    /\ Len(pushed) = ticks
    /\ Latest(pushed)[1] > 0
    /\ cpu_data[WindowLen] = Latest(pushed)[1]
    /\ ram_data[WindowLen] = Latest(pushed)[2]
    /\ prev_total_received = Some(Latest(sampled).received)

\* A listing call that could not be run or exited non-zero.
Failed(output) == ~output.spawned \/ ~output.success

\* C15: a tick whose container, image or pod listing fails leaves that list
\* empty, whatever it held before, and the loop goes on to poll for input.
C15_FailedFetchGivesEmptyList ==
    [][IsTickStep =>
          /\ (current_tab = "Docker" /\ Failed(fetched'.ps)
                => docker_containers' = <<>>)
          /\ (current_tab = "Docker" /\ Failed(fetched'.images)
                => docker_images' = <<>>)
          /\ (current_tab = "Kubernetes" /\ Failed(fetched'.pods)
                => k8s_pods' = <<>>)
          /\ (Failed(fetched'.ps) /\ Failed(fetched'.images) /\ Failed(fetched'.pods)
                => pc' = "poll")]_vars

\* C15 witness: the container listing exited non-zero although it printed a
\* well-formed line, and the list, which held a container before, is empty.
C15_Witness ==
    /\ last.op = "Tick"
    /\ current_tab = "Docker"
    /\ fetched.ps = ExitFailure(<<PsLine1>>)
    /\ docker_containers = <<>>
    /\ Id1 \in DOMAIN container_stats_history
    /\ ticks = 3
    /\ pc = "poll"

\* The number of lines with at least n parts among the first j lines.
Rank(lines, n, j) == Cardinality({i \in 1..j : Len(lines[i]) >= n})

\* C16: after a successful listing the list has one item per line with enough
\* columns, in line order, each built from the columns of its line; the lines
\* with too few columns are the only ones missing.
C16_OneItemPerWellFormedLine ==
    last.op = "Tick" =>
        /\ (current_tab = "Docker" /\ ~Failed(fetched.ps) =>
              LET lines == fetched.ps.lines IN
              /\ Len(docker_containers) = Rank(lines, 5, Len(lines))
              /\ \A j \in 1..Len(lines) :
                    Len(lines[j]) >= 5 =>
                       LET c == docker_containers[Rank(lines, 5, j)] IN
                       /\ c.id = lines[j][1] /\ c.image = lines[j][2]
                       /\ c.name = lines[j][3] /\ c.status = lines[j][4]
                       /\ c.ports = lines[j][5])
        /\ (current_tab = "Docker" /\ ~Failed(fetched.images) =>
              LET lines == fetched.images.lines IN
              /\ Len(docker_images) = Rank(lines, 4, Len(lines))
              /\ \A j \in 1..Len(lines) :
                    Len(lines[j]) >= 4 =>
                       LET img == docker_images[Rank(lines, 4, j)] IN
                       /\ img.repository = lines[j][1] /\ img.tag = lines[j][2]
                       /\ img.image_id = lines[j][3] /\ img.size = lines[j][4])
        /\ (current_tab = "Kubernetes" /\ ~Failed(fetched.pods) =>
              LET lines == fetched.pods.lines IN
              /\ Len(k8s_pods) = Rank(lines, 5, Len(lines))
              /\ \A j \in 1..Len(lines) :
                    Len(lines[j]) >= 5 =>
                       LET pod == k8s_pods[Rank(lines, 5, j)] IN
                       /\ pod.name = lines[j][1] /\ pod.namespace = lines[j][2]
                       /\ pod.status = lines[j][3] /\ pod.restarts = lines[j][4]
                       /\ pod.age = lines[j][5])

\* C16 witness: a response of three well-formed lines and one malformed line
\* in second place has given exactly three containers, in line order.
C16_Witness ==
    /\ last.op = "Tick"
    /\ current_tab = "Docker"
    /\ fetched.ps = ExitSuccess(<<PsLine1, PsMalformed, PsLine2, PsLine3>>)
    /\ Len(docker_containers) = 3
    /\ docker_containers[1].id = Id1
    /\ docker_containers[2].id = Id2
    /\ docker_containers[3].id = Id3

\* The usage call returned a record for the identity: it succeeded and printed
\* a line of at least six columns starting with it.
HasUsageRecord(output, id) ==
    /\ ~Failed(output)
    /\ \E j \in 1..Len(output.lines) :
          Len(output.lines[j]) >= 6 /\ output.lines[j][1] = id

\* C17: after a successful container listing every well-formed line has its
\* container in the list whatever the usage call returned, and a container
\* without a usage record has cpu and memory percent 0 and "N/A" for memory
\* usage, network I/O and block I/O.
C17_NoUsageGivesPlaceholders ==
    last.op = "Tick" /\ current_tab = "Docker" /\ ~Failed(fetched.ps) =>
        /\ \A j \in 1..Len(fetched.ps.lines) :
              Len(fetched.ps.lines[j]) >= 5 =>
                 \E k \in 1..Len(docker_containers) :
                    docker_containers[k].id = fetched.ps.lines[j][1]
        /\ \A k \in 1..Len(docker_containers) :
              ~HasUsageRecord(fetched.stats, docker_containers[k].id) =>
                 /\ docker_containers[k].cpu_percent = 0
                 /\ docker_containers[k].mem_percent = 0
                 /\ docker_containers[k].mem_usage = "N/A"
                 /\ docker_containers[k].net_io = <<"N", "/", "A">>
                 /\ docker_containers[k].block_io = "N/A"

\* C17 witness: the usage call returned a record for one of two listed
\* containers only; the other is listed first, with the placeholders.
C17_Witness ==
    /\ last.op = "Tick"
    /\ current_tab = "Docker"
    /\ fetched.ps = ExitSuccess(<<PsLine2, PsLine1>>)
    /\ fetched.stats = ExitSuccess(<<StatsLine1>>)
    /\ Len(docker_containers) = 2
    /\ docker_containers[1].id = Id2
    /\ docker_containers[1].mem_usage = "N/A"
    /\ docker_containers[1].cpu_percent = 0
    /\ docker_containers[2].id = Id1
    /\ docker_containers[2].cpu_percent = 15
    /\ docker_containers[2].mem_usage = "10MiB / 1GiB"

\* C18: the loop never panics, whatever the ticks, the keys and the listings.
C18_NeverPanics == pc # "panicked"

\* The empty dialog input: six empty fields, focus on field 0.
EmptyDialog(state) ==
    /\ state.selected_field = 0
    /\ state.image_name = <<>> /\ state.container_name = <<>>
    /\ state.ports = <<>> /\ state.env_vars = <<>>
    /\ state.volumes = <<>> /\ state.command = <<>>

\* C19: the focus index stays in 0..5; the dialog Tab key moves it from f to
\* (f+1) mod 6 and BackTab from f to (f-1) mod 6, 0 going to 5; each undoes
\* the other, and six Tab keys in a row end on the field they started from.
C19_FocusIsCyclic ==
    [][/\ create_dialog_state.selected_field \in 0..5
       /\ create_dialog_state'.selected_field \in 0..5
       /\ (DialogTab => create_dialog_state'.selected_field =
                           (create_dialog_state.selected_field + 1) % 6)
       /\ (DialogBackTab => create_dialog_state'.selected_field =
                               (create_dialog_state.selected_field + 5) % 6)
       /\ \A f \in 0..5 :
             /\ FocusPrevious(FocusNext(f)) = f
             /\ FocusNext(FocusPrevious(f)) = f
       /\ (last'.tabs = 6 => create_dialog_state'.selected_field = last'.from)]_vars

\* C19 witness: BackTab took the focus from 0 to 5, and the sixth Tab key in a
\* row after it has brought the focus back to 5.
C19_Witness ==
    /\ show_create_dialog
    /\ last.op = "DialogTab"
    /\ last.tabs = 6
    /\ last.from = 5
    /\ last.focus = 4
    /\ create_dialog_state.selected_field = 5

\* C20: Esc and a successful Enter close the dialog and leave the dialog input
\* empty; the input is empty whenever the dialog is closed, and the key that
\* opens the dialog shows it empty.
C20_DialogClosesEmpty ==
    [][/\ (DialogEsc => ~show_create_dialog' /\ EmptyDialog(create_dialog_state'))
       /\ (DialogEnter /\ message'[1] = "Container created successfully from image: "
             => ~show_create_dialog' /\ EmptyDialog(create_dialog_state'))
       /\ (~show_create_dialog' => EmptyDialog(create_dialog_state'))
       /\ (KeyN /\ current_tab = "Docker"
             => show_create_dialog' /\ EmptyDialog(create_dialog_state'))]_vars

\* C20 witness: an image name was typed and submitted with success in an
\* earlier dialog session, and the dialog, opened again, is empty.
C20_Witness ==
    /\ last.op = "KeyN"
    /\ show_create_dialog
    /\ EmptyDialog(create_dialog_state)
    /\ message = <<"Container created successfully from image: ", <<"a">>>>
    /\ \E k \in 1..Len(dispatched) : dispatched[k].action = "run"

\* C21: Enter in the dialog with an empty image name makes no call and
\* dispatches nothing, sets the message to the validation error, and the loop
\* goes on to its next tick.
C21_EmptyImageNameIsRejected ==
    [][DialogEnter /\ create_dialog_state.image_name = <<>> =>
          /\ dispatched' = dispatched
          /\ called' = "none"
          /\ message' = <<"Error: Image name is required!">>
          /\ pc' = "tick"]_vars

\* C21 witness: the dialog was submitted with an empty image name after a
\* preset was created: the message is the validation error and the preset is
\* still the only action dispatched.
C21_Witness ==
    /\ last.op = "DialogEnter"
    /\ called = "none"
    /\ message = <<"Error: Image name is required!">>
    /\ Len(dispatched) = 1
    /\ dispatched[1].action # "run"
    /\ ~show_create_dialog
    /\ pc = "tick"

\* The text shown after the key of a preset.
OptimisticText(action) ==
    CASE action = "create_postgres" -> "Creating PostgreSQL container..."
      [] action = "create_redis" -> "Creating Redis container..."
      [] action = "create_mongodb" -> "Creating MongoDB container..."
      [] action = "create_grafana" -> "Creating Grafana container..."

\* C22: after a submit with an image name the message tells how the call
\* ended: the success text with the image name, the error text of the tool, or
\* the text of a process that could not be run; after a preset key the message
\* is the text of that preset, whether its process was spawned or not.
C22_MessageReflectsOutcome ==
    [][/\ (DialogEnter /\ create_dialog_state.image_name # <<>> =>
             /\ called' \in {"success", "exit_failure", "spawn_failed"}
             /\ (called' = "success" =>
                    message' = <<"Container created successfully from image: ",
                                 create_dialog_state.image_name>>)
             /\ (called' = "exit_failure" =>
                    message'[1] = "Error creating container: ")
             /\ (called' = "spawn_failed" =>
                    message'[1] = "Failed to execute docker command: "))
       /\ (KeyPreset /\ current_tab = "Docker" =>
             /\ called' \in {"spawned", "spawn_failed"}
             /\ Len(dispatched') = Len(dispatched) + 1
             /\ message' = <<OptimisticText(Latest(dispatched').action)>>)]_vars

\* C22 witness: a custom creation was submitted earlier, and the process of
\* the Redis preset pressed last could not be spawned; the message is the
\* text of the preset.
C22_Witness ==
    /\ last.op = "KeyPreset"
    /\ called = "spawn_failed"
    /\ message = <<"Creating Redis container...">>
    /\ Len(dispatched) = 2
    /\ dispatched[1].action = "run"
    /\ dispatched[2].action = "create_redis"

\* The text a lifecycle key puts in front of the name of its target.
ActionText(action) ==
    CASE action = "stop" -> "Stopped container: "
      [] action = "start" -> "Started container: "
      [] action = "restart" -> "Restarting container: "
      [] action = "rm" -> "Deleted container: "
      [] action = "rmi" -> "Deleted image: "
      [] action = "delete_pod" -> "Deleted pod: "
      [] OTHER -> OptimisticText(action)

\* C23: a lifecycle key (stop or delete image, start, restart, delete
\* container, delete pod, preset) leaves the lists, both selections, the tab,
\* the view, the host buffers and counters, the histories and the dialog as
\* they are; the message it sets is the text of the action it dispatched,
\* however the call ended, and stays as it is when nothing was dispatched.
C23_LifecycleChangesOnlyMessage ==
    [][(KeyX \/ KeyContainerAction \/ KeyD \/ KeyPreset) =>
          /\ UNCHANGED <<docker_containers, docker_images, k8s_pods,
                         docker_list_state, k8s_list_state, current_tab,
                         docker_view, hostVars, container_stats_history,
                         show_create_dialog, create_dialog_state>>
          /\ (dispatched' # dispatched =>
                /\ called' \in {"spawned", "spawn_failed"}
                /\ message'[1] = ActionText(Latest(dispatched').action))
          /\ (dispatched' = dispatched => message' = message)
          /\ pc' = "tick"]_vars

\* C23 witness: the second of two listed containers was deleted and the process
\* could not be spawned; the message names it, and it is still listed and
\* still selected.
C23_Witness ==
    /\ last.op = "KeyContainerAction"
    /\ called = "spawn_failed"
    /\ Len(docker_containers) = 2
    /\ docker_list_state = Some(1)
    /\ message = <<"Deleted container: ", docker_containers[2].name>>
    /\ Latest(dispatched) = [action |-> "rm", target |-> docker_containers[2].id]

\* The number of items of the list carrying the identity, and the number of
\* samples a history or log holds for it.
Occurrences(list, id) == Cardinality({k \in 1..Len(list) : list[k].id = id})
SamplesOf(hist, id) == IF id \in DOMAIN hist THEN Len(hist[id]) ELSE 0

\* C24: a tick on the System tab leaves the three lists and every history as
\* they are; a tick on the Docker tab replaces the container and image lists
\* by what its listings gave, leaves the pods, and records one sample for each
\* item of the new container list and none for any other identity; a tick on
\* the Kubernetes tab replaces the pod list only and records nothing.
C24_TickRefreshesActiveTabOnly ==
    [][IsTickStep =>
          /\ (current_tab = "System" =>
                UNCHANGED <<docker_containers, docker_images, k8s_pods,
                            container_stats_history, recorded>>)
          /\ (current_tab = "Docker" =>
                /\ k8s_pods' = k8s_pods
                /\ Len(docker_containers') =
                      IF Failed(fetched'.ps) THEN 0
                      ELSE Rank(fetched'.ps.lines, 5, Len(fetched'.ps.lines))
                /\ Len(docker_images') =
                      IF Failed(fetched'.images) THEN 0
                      ELSE Rank(fetched'.images.lines, 4, Len(fetched'.images.lines))
                /\ DOMAIN container_stats_history' =
                      DOMAIN container_stats_history
                         \cup {docker_containers'[k].id : k \in 1..Len(docker_containers')}
                /\ \A id \in DOMAIN container_stats_history' :
                      /\ Len(container_stats_history'[id]) =
                            Min(HistoryCap, SamplesOf(container_stats_history, id)
                                               + Occurrences(docker_containers', id))
                      /\ SamplesOf(recorded', id) =
                            SamplesOf(recorded, id) + Occurrences(docker_containers', id))
          /\ (current_tab = "Kubernetes" =>
                /\ UNCHANGED <<docker_containers, docker_images,
                               container_stats_history, recorded>>
                /\ Len(k8s_pods') =
                      IF Failed(fetched'.pods) THEN 0
                      ELSE Rank(fetched'.pods.lines, 5, Len(fetched'.pods.lines)))]_vars

\* C24 witness: a tick on the Kubernetes tab has listed pods; the two
\* containers listed by the Docker tick before it are still held, each with
\* the one sample of that tick.
C24_Witness ==
    /\ last.op = "Tick"
    /\ current_tab = "Kubernetes"
    /\ Len(k8s_pods) >= 2
    /\ Len(docker_containers) = 2
    /\ Cardinality(DOMAIN container_stats_history) = 2
    /\ \A k \in 1..2 : Len(container_stats_history[docker_containers[k].id]) = 1

\* The target a selection-based action hands to the external tool for the
\* item at position i (from 0) of the list the active view shows.
TargetAt(i) ==
    IF current_tab = "Kubernetes"
    THEN <<k8s_pods[i + 1].name, k8s_pods[i + 1].namespace>>
    ELSE IF docker_view = "Containers" THEN docker_containers[i + 1].id
    ELSE docker_images[i + 1].image_id

\* The selection and the length of the list the active view shows.
ActiveSelection == IF current_tab = "Kubernetes" THEN k8s_list_state ELSE docker_list_state
ActiveLen == IF current_tab = "Kubernetes" THEN Len(k8s_pods) ELSE DockerItemsLen

\* C25: a selection-based lifecycle key dispatches an action only from a
\* selection Some(i) with i inside the list of the active view, and then on the
\* item at position i of that list; from None or from an index outside the
\* list it dispatches nothing and leaves the message as it is.
C25_ActsOnSelectedItemOnly ==
    [][(KeyX \/ KeyContainerAction \/ KeyD) =>
          /\ (dispatched' # dispatched =>
                /\ IsSome(ActiveSelection)
                /\ Unwrap(ActiveSelection) < ActiveLen
                /\ dispatched' = Append(dispatched, Latest(dispatched'))
                /\ Latest(dispatched').target = TargetAt(Unwrap(ActiveSelection)))
          /\ (ActiveSelection = None \/ Unwrap(ActiveSelection) >= ActiveLen =>
                dispatched' = dispatched /\ message' = message)]_vars

\* C25 witness: the container list shrank to one item under the selection
\* Some(1); a container key pressed then has dispatched nothing and left the
\* message empty.
C25_Witness ==
    /\ last.op = "KeyContainerAction"
    /\ current_tab = "Docker"
    /\ docker_view = "Containers"
    /\ Len(docker_containers) = 1
    /\ last.docker = Some(1)
    /\ docker_list_state = Some(1)
    /\ dispatched = <<>>
    /\ message = <<>>

\* C26: after next or previous on a displayed list of n > 0 items the
\* selection is an index below n, whatever it was before.
C26_NavigationLandsInside ==
    [][(KeyDown \/ KeyUp) /\ current_tab # "System" /\ ActiveLen > 0 =>
          /\ IsSome(ActiveSelection')
          /\ Unwrap(ActiveSelection') < ActiveLen]_vars

\* C26, the part the code keeps: next lands inside the list from every
\* selection, and previous from None and from every index up to n.
C26_NextLandsInside ==
    [][/\ current_tab # "System" /\ ActiveLen > 0
       /\ \/ KeyDown
          \/ KeyUp /\ (ActiveSelection = None \/ Unwrap(ActiveSelection) <= ActiveLen)
       => /\ IsSome(ActiveSelection')
          /\ Unwrap(ActiveSelection') < ActiveLen]_vars

\* The text of the g-th of the six dialog fields.
FieldAt(state, g) ==
    CASE g = 0 -> state.image_name
      [] g = 1 -> state.container_name
      [] g = 2 -> state.ports
      [] g = 3 -> state.env_vars
      [] g = 4 -> state.volumes
      [] g = 5 -> state.command

\* C27: while the dialog is open, no key changes the tab, the Docker view or a
\* selection, none quits, the only action dispatched is the creation Enter
\* submits, and a typed character or a backspace changes the text of the
\* focused field alone, by one character at its end, and not the focus.
C27_DialogIsModal ==
    [][show_create_dialog /\ pc = "poll" /\ pc' # "poll" =>
          /\ UNCHANGED <<current_tab, docker_view, docker_list_state, k8s_list_state>>
          /\ pc' = "tick"
          /\ (dispatched' # dispatched =>
                DialogEnter /\ Latest(dispatched').action = "run")
          /\ (DialogChar \/ DialogBackspace =>
                LET f == create_dialog_state.selected_field IN
                /\ create_dialog_state'.selected_field = f
                /\ show_create_dialog'
                /\ \A g \in (0..5) \ {f} :
                      FieldAt(create_dialog_state', g) = FieldAt(create_dialog_state, g)
                /\ \/ /\ DialogChar
                      /\ Len(FieldAt(create_dialog_state', f)) =
                            Len(FieldAt(create_dialog_state, f)) + 1
                      /\ SubSeq(FieldAt(create_dialog_state', f), 1,
                                Len(FieldAt(create_dialog_state, f))) =
                            FieldAt(create_dialog_state, f)
                   \/ /\ DialogBackspace
                      /\ FieldAt(create_dialog_state, f) = <<>>
                      /\ FieldAt(create_dialog_state', f) = <<>>
                   \/ /\ DialogBackspace
                      /\ FieldAt(create_dialog_state, f) # <<>>
                      /\ FieldAt(create_dialog_state, f) =
                            Append(FieldAt(create_dialog_state', f),
                                   FieldAt(create_dialog_state, f)
                                      [Len(FieldAt(create_dialog_state, f))]))]_vars

\* C27 witness: with an image name typed and the focus moved to the second
\* field, a character typed has gone into the container name alone.
C27_Witness ==
    /\ last.op = "DialogChar"
    /\ show_create_dialog
    /\ last.focus = 1
    /\ create_dialog_state.selected_field = 1
    /\ create_dialog_state.image_name = <<"a">>
    /\ create_dialog_state.container_name = <<",">>
    /\ current_tab = "Docker"
    /\ dispatched = <<>>

====
